---- MODULE Spec2Model ----
(***************************************************************************)
(* A model of the ukhotides client (src/src/ukhotides): the UkhoTides      *)
(* class, its shared fetch routine _async_get_data, the six public         *)
(* coroutines and the from_dict parsers of the three dataclasses.          *)
(*                                                                         *)
(* Python values are modelled as follows.                                  *)
(*   str            a TLA+ string ("+" is \o, str(n) is ToString(n))       *)
(*   None           NoneVal; an Optional argument is NoneVal or PyStr/PyInt *)
(*   dict (JSON)    a function whose DOMAIN is the set of keys present     *)
(*   list           a sequence                                             *)
(*   JSON scalar    a string holding the scalar's text ("3.2", "null")     *)
(*   datetime       a record year/month/day/hour/minute/second             *)
(*   evaluation     Return(v) or Raise(e): the value or the exception      *)
(* A coroutine runs atomically between two awaits (asyncio is cooperative) *)
(* so every action below is the code between two suspension points.        *)
(***************************************************************************)
EXTENDS Integers, Sequences, FiniteSets, TLC

VARIABLES client, session, frame, call, last

vars == <<client, session, frame, call, last>>

\* ------------------------------------------------------------------ bounds
\* Caller tasks that may have a call in flight at the same time.
NumTasks == 2
\* Longest list in a response body.
MaxItems == 2

Tasks == 1..NumTasks

\* ----------------------------------------------------------- Python values
NoneVal == [kind |-> "None"]
PyStr(s) == [kind |-> "str", str |-> s]
PyInt(n) == [kind |-> "int", int |-> n]

Return(v) == [kind |-> "return", value |-> v]
Raise(e) == [kind |-> "raise", exc |-> e]

HasKey(d, k) == k \in DOMAIN d

\* d[k] of a dict: the value, or KeyError(k).
GetItem(d, k) == IF HasKey(d, k) THEN Return(d[k]) ELSE Raise([cls |-> "KeyError", key |-> k])

\* ------------------------------------------------------------------ enums
ApiLevel == {"Discovery", "Foundation", "Premium"}

\* ------------------------------------------------------------ http.HTTPStatus
OK == 200
UNAUTHORIZED == 401
FORBIDDEN == 403
NOT_FOUND == 404
TOO_MANY_REQUESTS == 429

\* ------------------------------------------------------------- const.py
BASE_ENDPOINT == "https://admiraltyapi.azure-api.net"
DISCOVERY_ENDPOINT == "/uktidalapi/api/V1/Stations"
FOUNDATION_ENDPOINT == "/uktidalapi-foundation/api/V2/Stations"
PREMIUM_ENDPOINT == "/uktidalapi-premium/api/V2/Stations"

\* ---------------------------------------------------------- exceptions.py
\* Every exception class stores its one constructor argument as .status.
NewError(cls, status) == [cls |-> cls, status |-> status]

\* ------------------------------------------------------ UkhoTides.__init__
\* A plausible slip: the Premium branch missing, so Premium falls to else.
BaseUrlNoPremium(api_level) ==
  IF api_level = "Foundation" THEN BASE_ENDPOINT \o FOUNDATION_ENDPOINT
  ELSE BASE_ENDPOINT \o DISCOVERY_ENDPOINT

BaseUrl(api_level) ==
  IF api_level = "Foundation" THEN BASE_ENDPOINT \o FOUNDATION_ENDPOINT
  ELSE IF api_level = "Premium" THEN BASE_ENDPOINT \o PREMIUM_ENDPOINT
  ELSE BASE_ENDPOINT \o DISCOVERY_ENDPOINT

\* api_level_arg is NoneVal when the caller omits the argument (the default
\* ApiLevel.Discovery applies), PyStr(level) otherwise.
UkhoTides(the_session, api_key, api_level_arg) ==
  LET api_level == IF api_level_arg = NoneVal THEN "Discovery" ELSE api_level_arg.str
  IN [_session |-> the_session,
      _api_key |-> api_key,
      _api_level |-> api_level,
      _base_url |-> BaseUrl(api_level)]

\* --------------------------------------------------------- datetime.strftime
\* %m %d %H %M %S: two digits, zero padded.
Pad2(n) == IF n < 10 THEN "0" \o ToString(n) ELSE ToString(n)

\* %Y for the four-digit years of the model.
Pad4(n) == ToString(n)

\* strftime("%Y-%m-%d")
StrfDate(dt) == Pad4(dt.year) \o "-" \o Pad2(dt.month) \o "-" \o Pad2(dt.day)

\* strftime("%Y-%m-%d %H:%M:%S")
StrfDateTime(dt) ==
  StrfDate(dt) \o " " \o Pad2(dt.hour) \o ":" \o Pad2(dt.minute) \o ":" \o Pad2(dt.second)

\* ------------------------------------------------- the URL each method builds
async_get_stations_url(self, args) ==
  IF args.name # NoneVal THEN self._base_url \o "?name=" \o args.name.str
  ELSE self._base_url

async_get_station_url(self, args) == self._base_url \o "/" \o args.station_id

async_get_tidal_events_url(self, args) ==
  LET url == self._base_url \o "/" \o args.station_id \o "/TidalEvents"
  IN IF args.duration # NoneVal THEN url \o "?duration=" \o ToString(args.duration.int)
     ELSE url

\* A plausible slip: the end formatted like the start, with its time of day.
DateRangeUrlWithEndTime(self, args) ==
  self._base_url \o "/" \o args.station_id \o "/TidalEventsForDateRange?"
    \o "StartDate=" \o StrfDateTime(args.start_date)
    \o "&EndDate=" \o StrfDateTime(args.end_date)

async_get_tidal_events_for_date_range_url(self, args) ==
  self._base_url \o "/" \o args.station_id \o "/TidalEventsForDateRange?"
    \o "StartDate=" \o StrfDateTime(args.start_date)
    \o "&EndDate=" \o StrfDate(args.end_date)

async_get_tidal_height_url(self, args) ==
  self._base_url \o "/" \o args.station_id \o "/TidalHeight?"
    \o "DateTime=" \o StrfDateTime(args.date_time)

async_get_tidal_heights_url(self, args) ==
  self._base_url \o "/" \o args.station_id \o "/TidalHeights?"
    \o "StartDateTime=" \o StrfDateTime(args.start_date)
    \o "&EndDateTime=" \o StrfDateTime(args.end_date)
    \o "&IntervalInMinutes=" \o ToString(args.interval)

Ops == {"async_get_stations", "async_get_station", "async_get_tidal_events",
        "async_get_tidal_events_for_date_range", "async_get_tidal_height",
        "async_get_tidal_heights"}

\* The url local of the method op, as it stands at the call of _async_get_data.
BuildUrl(self, op, args) ==
  CASE op = "async_get_stations" -> async_get_stations_url(self, args)
    [] op = "async_get_station" -> async_get_station_url(self, args)
    [] op = "async_get_tidal_events" -> async_get_tidal_events_url(self, args)
    [] op = "async_get_tidal_events_for_date_range" ->
         async_get_tidal_events_for_date_range_url(self, args)
    [] op = "async_get_tidal_height" -> async_get_tidal_height_url(self, args)
    [] op = "async_get_tidal_heights" -> async_get_tidal_heights_url(self, args)

\* ------------------------------------------------------------ dataclasses.py
NewStation(id, name) == [kind |-> "Station", id |-> id, name |-> name]

NewTidalEvent(event_type, date_time, height) ==
  [kind |-> "TidalEvent", event_type |-> event_type, date_time |-> date_time, height |-> height]

NewTidalHeight(date_time, height) ==
  [kind |-> "TidalHeight", date_time |-> date_time, height |-> height]

\* Station.from_dict: no try/except; the first missing key raises KeyError.
\* The arguments of cls(...) are evaluated left to right: Id before Name.
Station_from_dict(data) ==
  IF ~HasKey(data, "properties") THEN GetItem(data, "properties")
  ELSE IF ~HasKey(data["properties"], "Id") THEN GetItem(data["properties"], "Id")
  ELSE IF ~HasKey(data["properties"], "Name") THEN GetItem(data["properties"], "Name")
  ELSE Return(NewStation(data["properties"]["Id"], data["properties"]["Name"]))

\* TidalEvent.from_dict without its try/except, as in the older copy of the
\* package (ukhotides/dataclasses.py): the first missing key raises KeyError.
TidalEvent_from_dict_unguarded(data) ==
  IF ~HasKey(data, "EventType") THEN GetItem(data, "EventType")
  ELSE IF ~HasKey(data, "DateTime") THEN GetItem(data, "DateTime")
  ELSE IF ~HasKey(data, "Height") THEN GetItem(data, "Height")
  ELSE Return(NewTidalEvent(data["EventType"], data["DateTime"], data["Height"]))

\* A plausible addition: an event whose Height is null treated as one whose
\* Height is missing.
TidalEvent_from_dict_rejects_null(data) ==
  IF HasKey(data, "EventType") /\ HasKey(data, "DateTime") /\ HasKey(data, "Height")
       /\ data["Height"] # "null"
  THEN Return(NewTidalEvent(data["EventType"], data["DateTime"], data["Height"]))
  ELSE Return(NoneVal)

\* TidalEvent.from_dict: the KeyError of any of the three reads is caught
\* and None is returned.
TidalEvent_from_dict(data) ==
  IF HasKey(data, "EventType") /\ HasKey(data, "DateTime") /\ HasKey(data, "Height")
  THEN Return(NewTidalEvent(data["EventType"], data["DateTime"], data["Height"]))
  ELSE Return(NoneVal)

\* TidalHeight.from_dict without its try/except, as in the older copy of the
\* package: the first missing key raises KeyError.
TidalHeight_from_dict_unguarded(data) ==
  IF ~HasKey(data, "DateTime") THEN GetItem(data, "DateTime")
  ELSE IF ~HasKey(data, "Height") THEN GetItem(data, "Height")
  ELSE Return(NewTidalHeight(data["DateTime"], data["Height"]))

\* TidalHeight.from_dict: the KeyError of either read is caught and None is
\* returned.
TidalHeight_from_dict(data) ==
  IF HasKey(data, "DateTime") /\ HasKey(data, "Height")
  THEN Return(NewTidalHeight(data["DateTime"], data["Height"]))
  ELSE Return(NoneVal)

\* A list comprehension whose element evaluations are rs, in order: the list
\* of their values, or the first exception raised.
ListComp(rs) ==
  LET bad == {i \in 1..Len(rs) : rs[i].kind = "raise"}
  IN IF bad # {}
     THEN rs[CHOOSE i \in bad : \A j \in bad : i <= j]
     ELSE Return([i \in 1..Len(rs) |-> rs[i].value])

\* [e for e in xs if e is not None]
FilterNotNone(xs) == SelectSeq(xs, LAMBDA e : e # NoneVal)

\* ------------------------------------- what each method does with the data
\* A plausible slip: the stations collected without repetition, so that a
\* feature listed twice yields one record.
StationsResultDistinct(data) ==
  IF ~HasKey(data, "features") THEN GetItem(data, "features")
  ELSE LET all == ListComp([i \in 1..Len(data["features"]) |-> Station_from_dict(data["features"][i])])
       IN IF all.kind = "raise" THEN all
          ELSE Return(SelectSeq(
                 [i \in 1..Len(all.value) |->
                    IF \E j \in 1..(i - 1) : all.value[j] = all.value[i]
                    THEN NoneVal ELSE all.value[i]],
                 LAMBDA e : e # NoneVal))

async_get_stations_result(data) ==
  IF ~HasKey(data, "features") THEN GetItem(data, "features")
  ELSE ListComp([i \in 1..Len(data["features"]) |-> Station_from_dict(data["features"][i])])

async_get_station_result(data) == Station_from_dict(data)

\* The version of the package kept beside src/ (ukhotides/__init__.py:72):
\* the parsed list is returned as it is, absent entries included.
TidalEventsUnfiltered(data) == ListComp([i \in 1..Len(data) |-> TidalEvent_from_dict(data[i])])

async_get_tidal_events_result(data) ==
  LET events == ListComp([i \in 1..Len(data) |-> TidalEvent_from_dict(data[i])])
  IN IF events.kind = "raise" THEN events ELSE Return(FilterNotNone(events.value))

async_get_tidal_events_for_date_range_result(data) ==
  LET events == ListComp([i \in 1..Len(data) |-> TidalEvent_from_dict(data[i])])
  IN IF events.kind = "raise" THEN events ELSE Return(FilterNotNone(events.value))

async_get_tidal_height_result(data) == GetItem(data, "Height")

async_get_tidal_heights_result(data) ==
  LET heights == ListComp([i \in 1..Len(data) |-> TidalHeight_from_dict(data[i])])
  IN IF heights.kind = "raise" THEN heights ELSE Return(FilterNotNone(heights.value))

\* The statements of the method op after its await of _async_get_data.
Result(op, data) ==
  CASE op = "async_get_stations" -> async_get_stations_result(data)
    [] op = "async_get_station" -> async_get_station_result(data)
    [] op = "async_get_tidal_events" -> async_get_tidal_events_result(data)
    [] op = "async_get_tidal_events_for_date_range" ->
         async_get_tidal_events_for_date_range_result(data)
    [] op = "async_get_tidal_height" -> async_get_tidal_height_result(data)
    [] op = "async_get_tidal_heights" -> async_get_tidal_heights_result(data)

\* ------------------------------------------------- UkhoTides._async_get_data
\* A plausible slip: the headers left out of the GET.
RequestWithoutKey(self, url) ==
  [method |-> "GET", url |-> url, headers |-> <<>>]

\* The GET of lines 47-49.
Request(self, url) ==
  [method |-> "GET", url |-> url,
   headers |-> ("Ocp-Apim-Subscription-Key" :> self._api_key)]

\* A plausible slip: every 2xx status taken as success, not 200 alone.
StatusCheckAny2xx(status) ==
  IF status = UNAUTHORIZED
    THEN Raise(NewError("InvalidApiKeyError", PyStr("Invalid API key")))
  ELSE IF status = FORBIDDEN
    THEN Raise(NewError("ApiQuotaExceededError", PyStr("API quota exceeded")))
  ELSE IF status = TOO_MANY_REQUESTS
    THEN Raise(NewError("TooManyRequestsError", PyStr("Too many API requests")))
  ELSE IF status = NOT_FOUND
    THEN Raise(NewError("StationNotFoundError", PyStr("Station not found")))
  ELSE IF status < 200 \/ status > 299
    THEN Raise(NewError("ApiError", PyStr("Invalid response from API: " \o ToString(status))))
  ELSE Return(NoneVal)

\* The five status tests of lines 50-59: the exception raised, or
\* Return(NoneVal) when control falls through to resp.json().
StatusCheck(status) ==
  IF status = UNAUTHORIZED
    THEN Raise(NewError("InvalidApiKeyError", PyStr("Invalid API key")))
  ELSE IF status = FORBIDDEN
    THEN Raise(NewError("ApiQuotaExceededError", PyStr("API quota exceeded")))
  ELSE IF status = TOO_MANY_REQUESTS
    THEN Raise(NewError("TooManyRequestsError", PyStr("Too many API requests")))
  ELSE IF status = NOT_FOUND
    THEN Raise(NewError("StationNotFoundError", PyStr("Station not found")))
  ELSE IF status # OK
    THEN Raise(NewError("ApiError", PyStr("Invalid response from API: " \o ToString(status))))
  ELSE Return(NoneVal)

\* await resp.json(): the decoded body; aiohttp raises ContentTypeError for a
\* body that is not JSON.
ReadJson(body) ==
  IF body.kind = "json" THEN Return(body.value)
  ELSE Raise([cls |-> "ContentTypeError"])

\* ------------------------------------------------------- coroutine frames
\* The locals of one call: those of the public method and of the
\* _async_get_data it awaits. state is the suspension point the call is at.
IdleFrame ==
  [state |-> "idle", op |-> "", args |-> NoneVal, url |-> "", sent |-> <<>>,
   status |-> 0, body |-> NoneVal, held |-> FALSE, decoded |-> FALSE,
   outcome |-> NoneVal]

\* A plausible slip: the locals of a call kept on the client instance, where
\* every call of the instance finds and overwrites them.
FrameOnInstance(c) == 1

\* Each call runs in a coroutine frame of its own.
FrameOf(c) == c

\* A plausible addition: the three premium methods refused by the client
\* itself, before any request, unless it was built for the Premium tier.
EnterTierChecked(self, op, args) ==
  LET url == BuildUrl(self, op, args)
  IN IF self._api_level # "Premium"
          /\ op \in {"async_get_tidal_events_for_date_range", "async_get_tidal_height",
                     "async_get_tidal_heights"}
     THEN [IdleFrame EXCEPT !.state = "done", !.op = op, !.args = args,
                            !.outcome = Raise(NewError("ApiError", PyStr("Premium only")))]
     ELSE [IdleFrame EXCEPT !.state = "get", !.op = op, !.args = args, !.url = url,
                            !.sent = <<Request(self, url)>>]

\* From the call of the method to the await of session.get: the URL is built
\* and the GET is issued.
Enter(self, op, args) ==
  LET url == BuildUrl(self, op, args)
  IN [IdleFrame EXCEPT !.state = "get", !.op = op, !.args = args, !.url = url,
                       !.sent = <<Request(self, url)>>]

\* A plausible slip: the response awaited without async with, so that nothing
\* releases it when the call leaves.
ExitHolding(f, outcome) == [f EXCEPT !.state = "done", !.outcome = outcome]

\* Leaving the async with block: the response is released, and the value or
\* the exception goes to the awaiting caller.
Exit(f, outcome) == [f EXCEPT !.state = "done", !.held = FALSE, !.outcome = outcome]

\* A plausible addition: one more GET after a 429, instead of raising.
OnResponseRetry429(self, f, status, body) ==
  LET got == [f EXCEPT !.status = status, !.body = body, !.held = TRUE]
      chk == StatusCheck(status)
  IN IF status = TOO_MANY_REQUESTS /\ Len(f.sent) < 2
     THEN [got EXCEPT !.state = "get", !.held = FALSE,
                      !.sent = Append(f.sent, Request(self, f.url))]
     ELSE IF chk.kind = "raise" THEN Exit(got, chk) ELSE [got EXCEPT !.state = "json"]

\* A plausible slip: the body decoded first, the status tested afterwards.
OnResponseDecodeFirst(self, f, status, body) ==
  LET got == [f EXCEPT !.status = status, !.body = body, !.held = TRUE, !.decoded = TRUE]
      data == ReadJson(body)
      chk == StatusCheck(status)
  IN IF data.kind = "raise" THEN Exit(got, data)
     ELSE IF chk.kind = "raise" THEN Exit(got, chk)
     ELSE [got EXCEPT !.state = "json"]

\* session.get has resumed with resp: lines 50-62.
OnResponse(self, f, status, body) ==
  LET got == [f EXCEPT !.status = status, !.body = body, !.held = TRUE]
      chk == StatusCheck(status)
  IN IF chk.kind = "raise" THEN Exit(got, chk) ELSE [got EXCEPT !.state = "json"]

\* resp.json() has resumed: line 64, then the rest of the public method.
OnJson(f) ==
  LET data == ReadJson(f.body)
      read == [f EXCEPT !.decoded = TRUE]
  IN IF data.kind = "raise" THEN Exit(read, data) ELSE Exit(read, Result(f.op, data.value))

\* A plausible slip: async with put on the session, which closes it on exit.
SessionClosedOnExit(s) == [s EXCEPT !.closed = TRUE]

\* The session after a response of it has been released: async with closes
\* the response context only, the session is left as it is.
SessionAfterExit(s) == s

\* ------------------------------------------------------------- the inputs
Statuses == {200, 201, 204, 400, 401, 403, 404, 429, 500}

StationIds == {"0001"}
Names == {NoneVal, PyStr("StationName")}
Durations == {NoneVal, PyInt(4)}
Intervals == {60}

DateTime(y, mo, d, h, mi, s) ==
  [year |-> y, month |-> mo, day |-> d, hour |-> h, minute |-> mi, second |-> s]

DateTimes == {DateTime(2020, 1, 1, 0, 0, 0), DateTime(2020, 1, 1, 2, 0, 0),
              DateTime(2020, 1, 30, 0, 0, 0), DateTime(2020, 11, 30, 13, 45, 9)}

ArgsOf(op) ==
  CASE op = "async_get_stations" -> {[name |-> n] : n \in Names}
    [] op = "async_get_station" -> {[station_id |-> i] : i \in StationIds}
    [] op = "async_get_tidal_events" ->
         {[station_id |-> i, duration |-> d] : i \in StationIds, d \in Durations}
    [] op = "async_get_tidal_events_for_date_range" ->
         {[station_id |-> i, start_date |-> a, end_date |-> b] :
            i \in StationIds, a \in DateTimes, b \in DateTimes}
    [] op = "async_get_tidal_height" ->
         {[station_id |-> i, date_time |-> a] : i \in StationIds, a \in DateTimes}
    [] op = "async_get_tidal_heights" ->
         {[station_id |-> i, start_date |-> a, end_date |-> b, interval |-> n] :
            i \in StationIds, a \in DateTimes, b \in DateTimes, n \in Intervals}

\* JSON objects of the shapes the endpoints return, whole and with keys missing.
FeatureA == [type |-> "Feature", properties |-> [Id |-> "0001", Name |-> "Alpha"]]
FeatureB == [type |-> "Feature", properties |-> [Id |-> "0002", Name |-> "Beta"]]
FeatureNoName == [type |-> "Feature", properties |-> [Id |-> "0003"]]
FeatureNoId == [type |-> "Feature", properties |-> [Name |-> "Gamma"]]
FeatureNoProperties == [type |-> "Feature"]
Features == {FeatureA, FeatureB, FeatureNoName, FeatureNoId, FeatureNoProperties}

EventHigh == [EventType |-> "HighWater", DateTime |-> "2020-01-01T01:10:00", Height |-> "4.1"]
EventLow == [EventType |-> "LowWater", DateTime |-> "2020-01-01T07:20:00", Height |-> "0.7"]
EventNullHeight == [EventType |-> "HighWater", DateTime |-> "2020-01-01T13:30:00", Height |-> "null"]
EventNoHeight == [EventType |-> "LowWater", DateTime |-> "2020-01-01T19:40:00"]
EventNoDateTime == [EventType |-> "HighWater", Height |-> "3.9"]
EventNoEventType == [DateTime |-> "2020-01-02T01:50:00", Height |-> "4.0"]
\* Height is a JSON string where a number is expected.
EventTextHeight == [EventType |-> "LowWater", DateTime |-> "2020-01-02T08:00:00", Height |-> "\"n/a\""]
Events == {EventHigh, EventLow, EventNullHeight, EventNoHeight, EventNoDateTime,
           EventNoEventType, EventTextHeight}

HeightA == [DateTime |-> "2020-01-01T00:00:00", Height |-> "1.5"]
HeightB == [DateTime |-> "2020-01-01T01:00:00", Height |-> "2.5"]
HeightNull == [DateTime |-> "2020-01-01T02:00:00", Height |-> "null"]
HeightNoHeight == [DateTime |-> "2020-01-01T03:00:00"]
HeightNoDateTime == [Height |-> "3.5"]
\* DateTime is a JSON number where a string is expected.
HeightNumberDateTime == [DateTime |-> "1577844000", Height |-> "4.5"]
Heights == {HeightA, HeightB, HeightNull, HeightNoHeight, HeightNoDateTime,
            HeightNumberDateTime}

Lists(S) == UNION {[1..n -> S] : n \in 0..MaxItems}

Json(v) == [kind |-> "json", value |-> v]

\* Bodies that are not JSON: an empty body, and a text or HTML page.
NotJson == {[kind |-> "empty"], [kind |-> "text"]}

\* The JSON bodies a server may send for the endpoint of op.
JsonBodies(op) ==
  CASE op = "async_get_stations" ->
         {Json([features |-> l]) : l \in Lists(Features)}
           \cup {Json([type |-> "FeatureCollection"])}
    [] op = "async_get_station" -> {Json(f) : f \in Features}
    [] op \in {"async_get_tidal_events", "async_get_tidal_events_for_date_range"} ->
         {Json(l) : l \in Lists(Events)}
    [] op = "async_get_tidal_height" ->
         {Json([Height |-> "3.2"]), Json([Height |-> "null"]),
          Json([DateTime |-> "2020-01-01T00:00:00"])}
    [] op = "async_get_tidal_heights" -> {Json(l) : l \in Lists(Heights)}

\* With a status other than 200: no body, a page, an error message, or (as in
\* the tests) the payload of the endpoint.
ErrorBodies(op) ==
  NotJson \cup {Json([Message |-> "error"]), CHOOSE b \in JsonBodies(op) : TRUE}

Bodies(op, status) == IF status = OK THEN JsonBodies(op) \cup NotJson ELSE ErrorBodies(op)

\* ------------------------------------------------------------ the machine
IdleCall ==
  [pc |-> "idle", op |-> "", args |-> NoneVal, status |-> 0, body |-> NoneVal,
   outcome |-> NoneVal]

\* The caller builds the client over its own, open session.
Init ==
  /\ \E level \in {NoneVal} \cup {PyStr(l) : l \in ApiLevel} :
       client = UkhoTides("session", "api_key", level)
  /\ session = [closed |-> FALSE]
  /\ frame = [k \in Tasks |-> IdleFrame]
  /\ call = [c \in Tasks |-> IdleCall]
  /\ last = "none"

\* Task c calls the method op with args; it runs to its await of session.get.
Call(c, op, args) ==
  /\ call[c].pc = "idle"
  /\ ~session.closed
  /\ frame' = [frame EXCEPT ![FrameOf(c)] = Enter(client, op, args)]
  /\ call' = [call EXCEPT ![c] = [IdleCall EXCEPT !.pc = "get", !.op = op, !.args = args]]
  /\ UNCHANGED <<client, session, last>>

\* The server answers the GET of task c; the call runs on to resp.json() or
\* leaves with an exception.
Respond(c, status, body) ==
  /\ call[c].pc = "get"
  /\ LET f == OnResponse(client, frame[FrameOf(c)], status, body)
     IN /\ frame' = [frame EXCEPT ![FrameOf(c)] = f]
        /\ call' = [call EXCEPT ![c].pc = f.state, ![c].status = status,
                                ![c].body = body, ![c].outcome = f.outcome]
        /\ session' = IF f.state = "done" THEN SessionAfterExit(session) ELSE session
  /\ UNCHANGED <<client, last>>

\* The body of task c's response has been read; the call runs to its end.
Decode(c) ==
  /\ call[c].pc = "json"
  /\ LET f == OnJson(frame[FrameOf(c)])
     IN /\ frame' = [frame EXCEPT ![FrameOf(c)] = f]
        /\ call' = [call EXCEPT ![c].pc = f.state, ![c].outcome = f.outcome]
        /\ session' = SessionAfterExit(session)
  /\ UNCHANGED <<client, last>>

\* The caller of task c takes the value or the exception; the frame is gone.
Finish(c) ==
  /\ call[c].pc = "done"
  /\ last' = call[c].outcome.kind
  /\ frame' = [frame EXCEPT ![FrameOf(c)] = IdleFrame]
  /\ call' = [call EXCEPT ![c] = IdleCall]
  /\ UNCHANGED <<client, session>>

\* One caller task, every method, argument, status and body.
Next ==
  \E c \in {1} :
    \/ \E op \in Ops : \E args \in ArgsOf(op) : Call(c, op, args)
    \/ /\ call[c].pc = "get"
       /\ \E status \in Statuses : \E body \in Bodies(call[c].op, status) :
            Respond(c, status, body)
    \/ Decode(c)
    \/ Finish(c)

Spec == Init /\ [][Next]_vars

\* The inputs of the concurrent runs: one argument list for each method, two
\* statuses, and for 200 a body the method accepts and one it does not.
ConcStatuses == {200, 404}

ConcArgsOf(op) ==
  CASE op = "async_get_stations" -> {[name |-> NoneVal]}
    [] op = "async_get_station" -> {[station_id |-> "0001"]}
    [] op = "async_get_tidal_events" -> {[station_id |-> "0001", duration |-> PyInt(4)]}
    [] op = "async_get_tidal_events_for_date_range" ->
         {[station_id |-> "0001", start_date |-> DateTime(2020, 1, 1, 0, 0, 0),
           end_date |-> DateTime(2020, 1, 30, 0, 0, 0)]}
    [] op = "async_get_tidal_height" ->
         {[station_id |-> "0001", date_time |-> DateTime(2020, 1, 1, 0, 0, 0)]}
    [] op = "async_get_tidal_heights" ->
         {[station_id |-> "0001", start_date |-> DateTime(2020, 1, 1, 0, 0, 0),
           end_date |-> DateTime(2020, 1, 1, 2, 0, 0), interval |-> 60]}

ConcBodies(op, status) ==
  IF status # OK THEN {[kind |-> "empty"]}
  ELSE CASE op = "async_get_stations" ->
              {Json([features |-> <<FeatureA>>]), Json([type |-> "FeatureCollection"])}
         [] op = "async_get_station" -> {Json(FeatureB), Json(FeatureNoName)}
         [] op = "async_get_tidal_events" -> {Json(<<EventHigh>>), Json(<<EventNoHeight>>)}
         [] op = "async_get_tidal_events_for_date_range" ->
              {Json(<<EventLow>>), Json(<<EventNoDateTime>>)}
         [] op = "async_get_tidal_height" ->
              {Json([Height |-> "3.2"]), Json([DateTime |-> "2020-01-01T00:00:00"])}
         [] op = "async_get_tidal_heights" -> {Json(<<HeightA>>), Json(<<HeightNoHeight>>)}

\* Every task may have a call in flight; their steps interleave freely.
NextConc ==
  \E c \in Tasks :
    \/ \E op \in Ops : \E args \in ConcArgsOf(op) : Call(c, op, args)
    \/ /\ call[c].pc = "get"
       /\ \E status \in ConcStatuses : \E body \in ConcBodies(call[c].op, status) :
            Respond(c, status, body)
    \/ Decode(c)
    \/ Finish(c)

SpecConc == Init /\ [][NextConc]_vars

\* ================================================================ claims
Done(c) == call[c].pc = "done"

InFlight(c) == call[c].pc # "idle"

Raised(c, cls) == call[c].outcome.kind = "raise" /\ call[c].outcome.exc.cls = cls

Returned(c) == call[c].outcome.kind = "return"

IsStation(data) ==
  /\ HasKey(data, "properties")
  /\ HasKey(data["properties"], "Id")
  /\ HasKey(data["properties"], "Name")

\* The body carries every key that the method op reads outside a try/except.
CarriesKeys(op, data) ==
  CASE op = "async_get_stations" ->
         /\ HasKey(data, "features")
         /\ \A i \in 1..Len(data["features"]) : IsStation(data["features"][i])
    [] op = "async_get_station" -> IsStation(data)
    [] op = "async_get_tidal_height" -> HasKey(data, "Height")
    [] OTHER -> TRUE

\* The outcome every status other than 200 has, whatever the method and tier.
ErrorByStatus(c) ==
  /\ call[c].status = 401 => Raised(c, "InvalidApiKeyError")
  /\ call[c].status = 403 => Raised(c, "ApiQuotaExceededError")
  /\ call[c].status = 404 => Raised(c, "StationNotFoundError")
  /\ call[c].status = 429 => Raised(c, "TooManyRequestsError")
  /\ call[c].status \notin {200, 401, 403, 404, 429} => Raised(c, "ApiError")

C2_ApiErrorCarriesStatus ==
  \A c \in Tasks : (Done(c) /\ Raised(c, "ApiError")) =>
    call[c].outcome.exc.status = PyInt(call[c].status)

AllKeys(item, keys) == keys \subseteq DOMAIN item

EventKeys == {"EventType", "DateTime", "Height"}

HeightKeys == {"DateTime", "Height"}

IsCompleteEvent(item) == AllKeys(item, EventKeys)

\* C3: for a 200 response whose body is a list, async_get_tidal_events
\* returns the items that have EventType, DateTime and Height, each as a
\* TidalEvent, in their order; the others are left out without an error, and
\* no entry of the result is None.
C3_EventsFiltered ==
  \A c \in Tasks :
    (Done(c) /\ call[c].op = "async_get_tidal_events" /\ call[c].status = 200
       /\ call[c].body.kind = "json") =>
      LET kept == SelectSeq(call[c].body.value, IsCompleteEvent)
          got == call[c].outcome.value
      IN /\ Returned(c)
         /\ Len(got) = Len(kept)
         /\ \A i \in 1..Len(got) :
              /\ got[i] # NoneVal
              /\ got[i] = [kind |-> "TidalEvent", event_type |-> kept[i].EventType,
                           date_time |-> kept[i].DateTime, height |-> kept[i].Height]

\* A list with an item lacking a key before a complete one has been returned
\* as the complete one alone.
C3_Witness ==
  \E c \in Tasks :
    /\ Done(c) /\ call[c].op = "async_get_tidal_events" /\ call[c].status = 200
    /\ call[c].body = Json(<<EventNoHeight, EventLow>>)
    /\ call[c].outcome = Return(<<NewTidalEvent("LowWater", "2020-01-01T07:20:00", "0.7")>>)

\* The records a finished call answered 200 has parsed, each with the parser
\* applied to it and the keys that parser reads.
ParsedBy(c) ==
  IF ~(Done(c) /\ call[c].status = 200 /\ call[c].body.kind = "json") THEN {}
  ELSE LET data == call[c].body.value
       IN CASE call[c].op = "async_get_station" ->
                 {[parser |-> "Station", item |-> data]}
            [] call[c].op = "async_get_stations" /\ HasKey(data, "features") ->
                 {[parser |-> "Station", item |-> data["features"][i]] :
                    i \in 1..Len(data["features"])}
            [] call[c].op \in {"async_get_tidal_events",
                               "async_get_tidal_events_for_date_range"} ->
                 {[parser |-> "TidalEvent", item |-> data[i]] : i \in 1..Len(data)}
            [] call[c].op = "async_get_tidal_heights" ->
                 {[parser |-> "TidalHeight", item |-> data[i]] : i \in 1..Len(data)}
            [] OTHER -> {}

Parse(p) ==
  CASE p.parser = "Station" -> Station_from_dict(p.item)
    [] p.parser = "TidalEvent" -> TidalEvent_from_dict(p.item)
    [] p.parser = "TidalHeight" -> TidalHeight_from_dict(p.item)

LacksField(p) ==
  CASE p.parser = "Station" -> ~IsStation(p.item)
    [] p.parser = "TidalEvent" -> ~AllKeys(p.item, EventKeys)
    [] p.parser = "TidalHeight" -> ~AllKeys(p.item, HeightKeys)

\* C4 (as stated): each of Station.from_dict, TidalEvent.from_dict and
\* TidalHeight.from_dict, given an object lacking a field it reads, returns
\* None and raises nothing.
C4_EveryParserTolerant ==
  \A c \in Tasks : \A p \in ParsedBy(c) : LacksField(p) => Parse(p) = Return(NoneVal)

\* C4 (amended): TidalEvent.from_dict and TidalHeight.from_dict, given an
\* object lacking a field they read, return None and raise nothing;
\* Station.from_dict raises KeyError for a missing properties, Id or Name, and
\* the call that parsed it ends with that KeyError.
C4_EventAndHeightParsersTolerant ==
  \A c \in Tasks : \A p \in ParsedBy(c) : LacksField(p) =>
    IF p.parser = "Station"
    THEN /\ Parse(p).kind = "raise" /\ Parse(p).exc.cls = "KeyError"
         /\ Raised(c, "KeyError")
    ELSE /\ Parse(p) = Return(NoneVal)
         /\ Returned(c)

\* A heights list with an item lacking Height has been parsed and returned.
C4_Witness ==
  \E c \in Tasks :
    /\ Done(c) /\ call[c].op = "async_get_tidal_heights"
    /\ [parser |-> "TidalHeight", item |-> HeightNoHeight] \in ParsedBy(c)
    /\ Returned(c)

StartsWith(s, prefix) == Len(s) >= Len(prefix) /\ SubSeq(s, 1, Len(prefix)) = prefix

\* The base path of each tier, written out.
TierBase(level) ==
  CASE level = "Discovery" -> "https://admiraltyapi.azure-api.net/uktidalapi/api/V1"
    [] level = "Foundation" -> "https://admiraltyapi.azure-api.net/uktidalapi-foundation/api/V2"
    [] level = "Premium" -> "https://admiraltyapi.azure-api.net/uktidalapi-premium/api/V2"

\* C5: the base URL is a function of the tier given at construction
\* (Discovery when none is given), every request URL of the client starts with
\* the tier's base path followed by /Stations, and the same call has three
\* different URLs under the three tiers.
C5_TierBasePath ==
  /\ client._base_url = TierBase(client._api_level) \o "/Stations"
  /\ UkhoTides("session", "api_key", NoneVal)._api_level = "Discovery"
  /\ \A c \in Tasks : InFlight(c) =>
       /\ \A i \in 1..Len(frame[c].sent) :
            StartsWith(frame[c].sent[i].url, TierBase(client._api_level) \o "/Stations")
       /\ \A l1, l2 \in ApiLevel : l1 # l2 =>
            BuildUrl(UkhoTides("session", "api_key", PyStr(l1)), call[c].op, call[c].args)
              # BuildUrl(UkhoTides("session", "api_key", PyStr(l2)), call[c].op, call[c].args)

\* A Premium client has issued the GET of a station.
C5_Witness ==
  \E c \in Tasks :
    /\ InFlight(c) /\ client._api_level = "Premium" /\ call[c].op = "async_get_station"
    /\ frame[c].sent[1].url
         = "https://admiraltyapi.azure-api.net/uktidalapi-premium/api/V2/Stations/0001"

\* The text of the datetimes of the model, written out.
FullText(dt) ==
  CASE dt = DateTime(2020, 1, 1, 0, 0, 0) -> "2020-01-01 00:00:00"
    [] dt = DateTime(2020, 1, 1, 2, 0, 0) -> "2020-01-01 02:00:00"
    [] dt = DateTime(2020, 1, 30, 0, 0, 0) -> "2020-01-30 00:00:00"
    [] dt = DateTime(2020, 11, 30, 13, 45, 9) -> "2020-11-30 13:45:09"

DateText(dt) == SubSeq(FullText(dt), 1, 10)

SameDate(a, b) == a.year = b.year /\ a.month = b.month /\ a.day = b.day

\* C6: async_get_tidal_events_for_date_range asks for
\* StartDate=<start as YYYY-MM-DD HH:MM:SS>&EndDate=<end as YYYY-MM-DD>: the
\* start's time of day is in the URL, the end's is not, so two ends on the
\* same date give the same URL.
C6_DateRangeQuery ==
  \A c \in Tasks :
    (InFlight(c) /\ call[c].op = "async_get_tidal_events_for_date_range") =>
      LET a == call[c].args
          url == frame[c].sent[1].url
      IN /\ url = client._base_url \o "/" \o a.station_id
                    \o "/TidalEventsForDateRange?StartDate=" \o FullText(a.start_date)
                    \o "&EndDate=" \o DateText(a.end_date)
         /\ \A e \in DateTimes : SameDate(e, a.end_date) =>
              BuildUrl(client, call[c].op, [a EXCEPT !.end_date = e]) = url
         /\ \A b \in DateTimes : b # a.start_date =>
              BuildUrl(client, call[c].op, [a EXCEPT !.start_date = b]) # url

\* The call of the tests: 2020-01-01T00:00:00 to 2020-01-30T00:00:00.
C6_Witness ==
  \E c \in Tasks :
    /\ InFlight(c) /\ call[c].op = "async_get_tidal_events_for_date_range"
    /\ call[c].args.start_date = DateTime(2020, 1, 1, 0, 0, 0)
    /\ call[c].args.end_date = DateTime(2020, 1, 30, 0, 0, 0)
    /\ frame[c].sent[1].url
         = "https://admiraltyapi.azure-api.net/uktidalapi-premium/api/V2/Stations/0001"
             \o "/TidalEventsForDateRange?StartDate=2020-01-01 00:00:00&EndDate=2020-01-30"

\* C7: for a 200 response whose features array has N items (each with
\* properties.Id and properties.Name), async_get_stations, with or without a
\* name, returns N Station records, the i-th with the id and name of the i-th
\* feature.
C7_OneStationPerFeature ==
  \A c \in Tasks :
    (Done(c) /\ call[c].op = "async_get_stations" /\ call[c].status = 200
       /\ call[c].body.kind = "json" /\ CarriesKeys(call[c].op, call[c].body.value)) =>
      LET features == call[c].body.value["features"]
          got == call[c].outcome.value
      IN /\ Returned(c)
         /\ Len(got) = Len(features)
         /\ \A i \in 1..Len(features) :
              /\ got[i].id = features[i]["properties"]["Id"]
              /\ got[i].name = features[i]["properties"]["Name"]

\* Two features, the same one twice, have been returned as two records to a
\* call that gave a name.
C7_Witness ==
  \E c \in Tasks :
    /\ Done(c) /\ call[c].op = "async_get_stations" /\ call[c].args.name # NoneVal
    /\ call[c].status = 200 /\ call[c].body = Json([features |-> <<FeatureB, FeatureB>>])
    /\ Returned(c) /\ Len(call[c].outcome.value) = 2

\* C8: a call issues exactly one GET; once a status other than 200 has come
\* the call has ended with its error, and no further request is issued for it.
C8_OneGetPerCall ==
  \A c \in Tasks : InFlight(c) =>
    /\ Len(frame[c].sent) = 1
    /\ frame[c].sent[1].method = "GET"
    /\ call[c].status \notin {0, 200} => (Done(c) /\ call[c].outcome.kind = "raise")

\* A call answered 429 has ended with TooManyRequestsError after one GET.
C8_Witness ==
  \E c \in Tasks :
    /\ Done(c) /\ call[c].status = 429 /\ Raised(c, "TooManyRequestsError")
    /\ Len(frame[c].sent) = 1

\* C10: the client never closes the session it was given: after any calls,
\* ended by a result or by any error, the session is open, and with no call
\* in flight the client, the session and the frames are as they were for the
\* fresh client, so the next call runs as on a fresh client.
C10_SessionLeftOpen ==
  /\ ~session.closed
  /\ (\A c \in Tasks : ~InFlight(c)) =>
       /\ client = UkhoTides("session", "api_key", PyStr(client._api_level))
       /\ session = [closed |-> FALSE]
       /\ frame = [k \in Tasks |-> IdleFrame]
       /\ \A c \in Tasks : ENABLED Call(c, "async_get_station", [station_id |-> "0001"])

\* After a call that failed, the next call has run and returned a result.
C10_Witness ==
  \E c \in Tasks : last = "raise" /\ Done(c) /\ Returned(c) /\ ~session.closed

\* The outcome of the call of op with args on the client self, answered status
\* and body, when it is the only call of the client.
Alone(self, op, args, status, body) ==
  LET answered == OnResponse(self, Enter(self, op, args), status, body)
  IN IF answered.state = "done" THEN answered.outcome ELSE OnJson(answered).outcome

\* C9: with calls of one client in flight together, under every interleaving,
\* each call works on its own URL and its own response and ends as it would
\* alone with the same arguments and response; the client's session, API key
\* and base URL stay as constructed.
C9_CallsIndependent ==
  /\ client = UkhoTides("session", "api_key", PyStr(client._api_level))
  /\ \A c \in Tasks :
       /\ InFlight(c) =>
            /\ frame[c].op = call[c].op /\ frame[c].args = call[c].args
            /\ frame[c].sent = <<Request(client, BuildUrl(client, call[c].op, call[c].args))>>
       /\ call[c].pc \in {"json", "done"} =>
            /\ frame[c].status = call[c].status /\ frame[c].body = call[c].body
       /\ call[c].pc \in {"idle", "get", "json"} => call[c].outcome = NoneVal
       /\ Done(c) =>
            call[c].outcome = Alone(client, call[c].op, call[c].args, call[c].status, call[c].body)

\* Two calls of different methods overlap: the second was answered and has
\* ended with an error while the first, answered 200, still reads its body.
C9_Witness ==
  \E c, d \in Tasks :
    /\ c # d /\ call[c].op # call[d].op
    /\ call[c].pc = "json"
    /\ Done(d) /\ Raised(d, "StationNotFoundError")

PremiumOps ==
  {"async_get_tidal_events_for_date_range", "async_get_tidal_height",
   "async_get_tidal_heights"}

\* C11: the client enforces no tier: a premium-only method called on a
\* Discovery or Foundation client is never refused before a request; it issues
\* its GET under that tier's base URL, and it ends as the same call answered
\* the same way ends on a Premium client, by the status table.
C11_NoTierEnforcement ==
  \A c \in Tasks :
    (client._api_level # "Premium" /\ call[c].op \in PremiumOps) =>
      /\ InFlight(c) =>
           /\ Len(frame[c].sent) = 1
           /\ StartsWith(frame[c].sent[1].url,
                         BaseUrl(client._api_level) \o "/" \o call[c].args.station_id \o "/Tidal")
           /\ call[c].status = 0 => (call[c].pc = "get" /\ call[c].outcome = NoneVal)
      /\ Done(c) =>
           /\ ErrorByStatus(c)
           /\ call[c].outcome =
                Alone(UkhoTides("session", "api_key", PyStr("Premium")),
                      call[c].op, call[c].args, call[c].status, call[c].body)

\* A Foundation client has asked for tidal heights, the server answered 200
\* and the call returned the heights.
C11_Witness ==
  \E c \in Tasks :
    /\ client._api_level = "Foundation" /\ call[c].op = "async_get_tidal_heights"
    /\ Done(c) /\ call[c].status = 200 /\ Returned(c)
    /\ StartsWith(frame[c].sent[1].url,
                  "https://admiraltyapi.azure-api.net/uktidalapi-foundation/api/V2/Stations/0001/TidalHeights?")

\* C12: every request of every public method carries the header
\* Ocp-Apim-Subscription-Key with the API key given at construction; none is
\* sent without it or with another key.
C12_KeyHeaderOnEveryRequest ==
  /\ client._api_key = "api_key"
  /\ \A c \in Tasks : InFlight(c) =>
       /\ Len(frame[c].sent) >= 1
       /\ \A i \in 1..Len(frame[c].sent) :
            LET headers == frame[c].sent[i].headers
            IN /\ DOMAIN headers = {"Ocp-Apim-Subscription-Key"}
               /\ headers["Ocp-Apim-Subscription-Key"] = "api_key"

\* The GET of a tidal height query is on its way with the key in its header.
C12_Witness ==
  \E c \in Tasks :
    /\ call[c].pc = "get" /\ call[c].op = "async_get_tidal_height"
    /\ frame[c].sent[1].headers["Ocp-Apim-Subscription-Key"] = client._api_key

\* C13: the body is decoded only once the status is known to be 200: a call
\* answered any other status ends with the error of its status and has never
\* decoded the body, so an empty or non-JSON error body cannot turn that error
\* into a decoding failure.
C13_DecodeOnlyAfterOk ==
  \A c \in Tasks :
    /\ frame[c].decoded => (call[c].status = 200 /\ Done(c))
    /\ call[c].pc = "json" => (call[c].status = 200 /\ ~frame[c].decoded)
    /\ (Done(c) /\ call[c].status # 200) =>
         /\ ~frame[c].decoded
         /\ ErrorByStatus(c)
         /\ ~Raised(c, "ContentTypeError")

\* A 401 without a body, as the tests mock it, has ended with
\* InvalidApiKeyError and the body was never decoded.
C13_Witness ==
  \E c \in Tasks :
    /\ Done(c) /\ call[c].status = 401 /\ call[c].body = [kind |-> "empty"]
    /\ Raised(c, "InvalidApiKeyError") /\ ~frame[c].decoded

HeldResponses == {k \in Tasks : frame[k].held}

\* C14: the response of a call is released on every way out of
\* _async_get_data: it is held only while the call reads the body of a 200;
\* a call that has returned or raised any of its errors holds none, and with
\* no call in flight the client holds no response.
C14_ResponseReleased ==
  /\ \A c \in Tasks :
       /\ frame[c].held <=> call[c].pc = "json"
       /\ Done(c) => ~frame[c].held
  /\ (\A c \in Tasks : ~InFlight(c)) => Cardinality(HeldResponses) = 0

\* A call has returned its result after reading the body, and its response,
\* held while the body was read, is released.
C14_Witness ==
  \E c \in Tasks :
    /\ Done(c) /\ Returned(c) /\ frame[c].decoded
    /\ call[c].op = "async_get_tidal_height" /\ ~frame[c].held

ListOps ==
  {"async_get_tidal_events", "async_get_tidal_events_for_date_range",
   "async_get_tidal_heights"}

RequiredKeys(op) == IF op = "async_get_tidal_heights" THEN HeightKeys ELSE EventKeys

\* The positions of the items of body that have every key op requires.
CompleteAt(op, body) == {i \in 1..Len(body) : AllKeys(body[i], RequiredKeys(op))}

\* C15: in the lists of async_get_tidal_events,
\* async_get_tidal_events_for_date_range and async_get_tidal_heights an item
\* is left out only when a required key is absent: an item with every
\* required key is kept whatever its values are (null, or of another type),
\* so the result is as long as the number of such items.
C15_DroppedOnlyForMissingKey ==
  \A c \in Tasks :
    (Done(c) /\ call[c].op \in ListOps /\ call[c].status = 200
       /\ call[c].body.kind = "json") =>
      LET body == call[c].body.value
          got == call[c].outcome.value
      IN /\ Returned(c)
         /\ Len(got) = Cardinality(CompleteAt(call[c].op, body))
         /\ \A i \in CompleteAt(call[c].op, body) :
              LET j == Cardinality({k \in CompleteAt(call[c].op, body) : k <= i})
              IN /\ got[j].date_time = body[i].DateTime
                 /\ got[j].height = body[i].Height

\* A date range answered with an event whose Height is null and one whose
\* Height is a string: both are in the result.
C15_Witness ==
  \E c \in Tasks :
    /\ Done(c) /\ call[c].op = "async_get_tidal_events_for_date_range"
    /\ call[c].status = 200 /\ call[c].body = Json(<<EventNullHeight, EventTextHeight>>)
    /\ Returned(c) /\ Len(call[c].outcome.value) = 2
    /\ call[c].outcome.value[1].height = "null"

====
